---- MODULE Spec2Model ----
(***************************************************************************)
(* Model of the CookieS backend (server/server/api.py): the iterative      *)
(* /form protocol (form, get_config, get_next_option) and the /create      *)
(* publish pipeline (create, validate_and_create).                         *)
(*                                                                         *)
(* Strings are sequences of one-character strings, so that the template    *)
(* filters (lower, replace) are computed character by character.  A        *)
(* cookiecutter.json document is a sequence of [key, val] entries: the     *)
(* order of the sequence is the order of the JSON object / Python dict.    *)
(***************************************************************************)
EXTENDS Integers, Sequences, FiniteSets, TLC

VARIABLES
    remoteDoc,     \* cookiecutter.json of the template repository (remote)
    orgCfg,        \* state of {org}/.github and of its defaults file (remote)
    cc_context,    \* FormDetails.cc_context, held by the client between calls
    user_inputs,   \* FormDetails.user_inputs
    next_key,      \* FormDetails.next_key
    next_value,    \* FormDetails.next_value
    done,          \* FormDetails.done
    formResp,      \* outcome of the last /form (or resolver) call
    calls,         \* number of /form calls made in the session
    okCalls,       \* number of /form calls that returned a session
    fetches,       \* number of get_config executions (remote fetches)
    visited,       \* the next_key values returned so far, in order
    pending,       \* a returned next_key waits for the client's answer
    A0,            \* the answer set the session started from
    pc,            \* position of the /create handler
    log,           \* side-effecting steps executed by the current /create
    tempDir,       \* the TemporaryDirectory of the current /create exists
    repoExists,    \* the target repository exists under the target org
    status,        \* HTTP status of the last /create response (0: none yet)
    raisedStatus,  \* status of the HTTPException raised by validate_and_create
    missing,       \* missing_values computed by the current /create
    creates,       \* number of /create calls made
    reqs,          \* the requests being served side by side, one per session
    clientCache,   \* lru_cache of get_git_client: token -> Github client
    strictMerge,   \* the installed cookiecutter rejects an invalid choice
    orgs,          \* the organizations of the remote, by name
    validated      \* the last /validate request and its response

vars == << remoteDoc, orgCfg, cc_context, user_inputs, next_key, next_value,
           done, formResp, calls, okCalls, fetches, visited, pending, A0,
           pc, log, tempDir, repoExists, status, raisedStatus, missing,
           creates, reqs, clientCache, strictMerge, orgs, validated >>

concVars    == << reqs, clientCache, strictMerge >>
validateVars == << orgs, validated >>
sessionVars == << cc_context, user_inputs, next_key, next_value, done >>
formVars    == << formResp, calls, okCalls, fetches, visited, pending >>
createVars  == << pc, log, tempDir, repoExists, status, raisedStatus,
                  missing, creates >>

(***************************************************************************)
(* Bounds of the model.                                                    *)
(***************************************************************************)
MaxKeys    == 2    \* longest cookiecutter.json document
MaxCalls   == 4    \* /form calls per session
MaxCreates == 1    \* /create calls per behaviour
NReqs      == 2    \* requests served side by side

(***************************************************************************)
(* Strings and the template language of the defaults.                      *)
(***************************************************************************)
FooBar == << "F", "o", "o", " ", "B", "a", "r" >>
MyApp  == << "M", "y", " ", "A", "p", "p" >>
MIT    == << "M", "I", "T" >>
BSD    == << "B", "S", "D" >>

None    == "None"
NoneVal == [kind |-> "none", items |-> << >>]

\* str.lower() on one character
Lower(c) ==
    CASE c = "A" -> "a" [] c = "B" -> "b" [] c = "D" -> "d" [] c = "F" -> "f"
      [] c = "I" -> "i" [] c = "M" -> "m" [] c = "S" -> "s" [] c = "T" -> "t"
      [] OTHER -> c

\* {{ cookiecutter.<k>.lower()|replace(' ', '-') }}
Slugify(s) ==
    [i \in 1..Len(s) |-> IF Lower(s[i]) = " " THEN "-" ELSE Lower(s[i])]

\* A template is a sequence of tokens: literal text or {{ cookiecutter.<k> }}
Lit(s)       == [k |-> "", s |-> s, slug |-> FALSE]
Ref(k, slug) == [k |-> k, s |-> << >>, slug |-> slug]

\* A default of cookiecutter.json: a string, a list of choices, or a nested
\* mapping (given by the templates of its values)
Str(tmpl)   == [kind |-> "str", items |-> << tmpl >>]
List(tmpls) == [kind |-> "list", items |-> tmpls]
Dict(tmpls) == [kind |-> "dict", items |-> tmpls]

KeyNames == {"project_name", "project_slug", "license", "version"}

\* Keys that cookiecutter keeps to itself (leading underscore)
PrivateKeys == {"__prompts__"}

AllKeys == KeyNames \cup PrivateKeys

DefaultsOf(key) ==
    CASE key = "project_name" -> { Str(<< Lit(MyApp) >>) }
      [] key = "project_slug" -> { Str(<< Ref("project_name", TRUE) >>),
                                   Str(<< Lit(<< "x", "-" >>),
                                          Ref("project_name", FALSE) >>) }
      [] key = "license"      -> { List(<< << Lit(MIT) >>, << Lit(BSD) >> >>) }
      [] key = "version"      -> { Str(<< Lit(<< "0", ".", "1" >>) >>) }
      [] key = "__prompts__"  -> { Dict(<< << Lit(<< "?" >>) >> >>) }

Entries == UNION { { [key |-> k, val |-> v] : v \in DefaultsOf(k) } : k \in AllKeys }

Keys(doc) == [i \in 1..Len(doc) |-> doc[i].key]
KeySet(doc) == { doc[i].key : i \in 1..Len(doc) }

\* JSON objects with distinct keys, of at most MaxKeys entries
Docs ==
    UNION { { d \in [1..n -> Entries] :
                \A i, j \in 1..n : i # j => d[i].key # d[j].key } : n \in 0..MaxKeys }

\* The example of the documentation: project_name, then the slug derived from it
ExampleDoc ==
    << [key |-> "project_name", val |-> Str(<< Lit(MyApp) >>)],
       [key |-> "project_slug", val |-> Str(<< Ref("project_name", TRUE) >>)] >>

EmptyMap == [k \in {} |-> << >>]

Put(f, k, v) == [x \in DOMAIN f \cup {k} |-> IF x = k THEN v ELSE f[x]]

(***************************************************************************)
(* render_variable(env, raw, user_inputs) under a StrictEnvironment: every *)
(* {{ cookiecutter.<k> }} is looked up in user_inputs, and an undefined    *)
(* name raises instead of rendering as empty text.                         *)
(***************************************************************************)
RenderToken(tok, inputs) ==
    IF tok.k = "" THEN tok.s
    ELSE IF tok.slug THEN Slugify(inputs[tok.k]) ELSE inputs[tok.k]

RECURSIVE RenderTemplate(_, _)
RenderTemplate(tmpl, inputs) ==
    IF tmpl = << >> THEN [raised |-> FALSE, s |-> << >>]
    ELSE IF Head(tmpl).k # "" /\ Head(tmpl).k \notin DOMAIN inputs
         THEN [raised |-> TRUE, s |-> << >>]
         ELSE LET rest == RenderTemplate(Tail(tmpl), inputs)
              IN  IF rest.raised THEN rest
                  ELSE [raised |-> FALSE,
                        s |-> RenderToken(Head(tmpl), inputs) \o rest.s]

\* A non-strict environment: an undefined name renders as empty text
render_variable_lenient(raw, inputs) ==
    LET known(tmpl) == SelectSeq(tmpl, LAMBDA t : t.k = "" \/ t.k \in DOMAIN inputs)
        r == [i \in 1..Len(raw.items) |-> RenderTemplate(known(raw.items[i]), inputs)]
    IN  [raised |-> FALSE,
         value |-> [kind |-> raw.kind, items |-> [i \in 1..Len(r) |-> r[i].s]]]

render_variable(raw, inputs) ==
    LET r == [i \in 1..Len(raw.items) |-> RenderTemplate(raw.items[i], inputs)]
    IN  IF \E i \in 1..Len(r) : r[i].raised
        THEN [raised |-> TRUE, value |-> NoneVal]
        ELSE [raised |-> FALSE,
              value |-> [kind |-> raw.kind,
                         items |-> [i \in 1..Len(r) |-> r[i].s]]]

(***************************************************************************)
(* get_next_option: the first key of cc_context, in document order, that   *)
(* is not in user_inputs, with its rendered default; (None, None, True)    *)
(* when there is none.                                                     *)
(***************************************************************************)
RECURSIVE NextOptionFrom(_, _, _)
NextOptionFrom(ctx, inputs, i) ==
    IF i > Len(ctx)
    THEN [raised |-> FALSE, key |-> None, value |-> NoneVal, done |-> TRUE]
    ELSE IF ctx[i].key \notin DOMAIN inputs
         THEN LET r == render_variable(ctx[i].val, inputs)
              IN  IF r.raised
                  THEN [raised |-> TRUE, key |-> None, value |-> NoneVal,
                        done |-> FALSE]
                  ELSE [raised |-> FALSE, key |-> ctx[i].key,
                        value |-> r.value, done |-> FALSE]
         ELSE NextOptionFrom(ctx, inputs, i + 1)

\* The scan loses its first iteration
get_next_option_skip_first(ctx, inputs) == NextOptionFrom(ctx, inputs, 2)

\* The scan tests the key against the document instead of the answers
get_next_option_never_done(ctx, inputs) ==
    IF ctx = << >>
    THEN [raised |-> FALSE, key |-> None, value |-> NoneVal, done |-> TRUE]
    ELSE NextOptionFrom(ctx, EmptyMap, 1)

\* The loop runs over the keys of context ("cookiecutter") instead of the
\* keys of context["cookiecutter"]
get_next_option_outer_dict(ctx, inputs) ==
    IF "cookiecutter" \in DOMAIN inputs
    THEN [raised |-> FALSE, key |-> None, value |-> NoneVal, done |-> TRUE]
    ELSE [raised |-> FALSE, key |-> "cookiecutter",
          value |-> [kind |-> "dict", items |-> << >>], done |-> FALSE]

\* The scan stops one key short: the last key of the document is never
\* asked for
get_next_option_stops_short(ctx, inputs) ==
    IF ctx = << >> THEN NextOptionFrom(ctx, inputs, 1)
    ELSE NextOptionFrom(SubSeq(ctx, 1, Len(ctx) - 1), inputs, 1)

get_next_option(ctx, inputs) == NextOptionFrom(ctx, inputs, 1)

(***************************************************************************)
(* get_config and cookiecutter's apply_overwrites_to_context.              *)
(***************************************************************************)
\* list.remove(x) followed by list.insert(0, x)
MoveToFront(items, x) ==
    LET i == CHOOSE j \in 1..Len(items) :
                 items[j] = x /\ \A h \in 1..(j - 1) : items[h] # x
    IN  << x >> \o SubSeq(items, 1, i - 1) \o SubSeq(items, i + 1, Len(items))

IsChoice(items, x) == \E j \in 1..Len(items) : items[j] = x

\* Every overwritten variable, a choice list included, gets the overwrite
OverwriteEntryAlways(e, overwrite) ==
    IF e.key \notin DOMAIN overwrite THEN e
    ELSE [key |-> e.key, val |-> Str(overwrite[e.key])]

\* One variable of the context under the overwrites.
OverwriteEntry(e, overwrite) ==
    IF e.key \notin DOMAIN overwrite THEN e
    ELSE IF e.val.kind = "list"
         THEN IF IsChoice(e.val.items, overwrite[e.key])
              THEN [key |-> e.key,
                    val |-> List(MoveToFront(e.val.items, overwrite[e.key]))]
              ELSE e
         ELSE [key |-> e.key, val |-> Str(overwrite[e.key])]

\* strict: the installed cookiecutter rejects an overwrite that is not one
\* of the choices (ValueError) instead of skipping it.
apply_overwrites_to_context(context, overwrite, strict) ==
    IF strict /\ \E i \in 1..Len(context) :
                    /\ context[i].key \in DOMAIN overwrite
                    /\ context[i].val.kind = "list"
                    /\ ~IsChoice(context[i].val.items, overwrite[context[i].key])
    THEN [raised |-> TRUE, why |-> "overwrite_error", context |-> context]
    ELSE [raised |-> FALSE, why |-> "",
          context |-> [i \in 1..Len(context) |->
                          OverwriteEntry(context[i], overwrite)]]

\* The GithubException of the lookup of {user_org}/.github or of its
\* defaults file is not caught
get_config_lookup_raises(doc, cfg, tmplOk, strict) ==
    IF ~tmplOk THEN [raised |-> TRUE, why |-> "fetch_error", context |-> << >>]
    ELSE IF ~cfg.repo \/ ~cfg.file
         THEN [raised |-> TRUE, why |-> "lookup_error", context |-> << >>]
         ELSE apply_overwrites_to_context(doc, cfg.defaults, strict)

\* tmplOk: the template repository and its cookiecutter.json can be read
\* (fetch_error otherwise: the exception of get_repo / get_contents)
get_config(doc, cfg, tmplOk, strict) ==
    IF ~tmplOk THEN [raised |-> TRUE, why |-> "fetch_error", context |-> << >>]
    ELSE IF ~cfg.repo THEN [raised |-> FALSE, why |-> "", context |-> doc]
    ELSE IF ~cfg.file THEN [raised |-> FALSE, why |-> "", context |-> doc]
    ELSE apply_overwrites_to_context(doc, cfg.defaults, strict)

NoOrgRepo      == [repo |-> FALSE, file |-> FALSE, defaults |-> EmptyMap]
NoDefaultsFile == [repo |-> TRUE, file |-> FALSE, defaults |-> EmptyMap]

UserDefaults ==
    { [k \in {"license"} |-> << Lit(BSD) >>],
      [k \in {"license"} |-> << Lit(FooBar) >>],
      [k \in {"project_name"} |-> << Lit(FooBar) >>],
      [k \in {"license", "project_name"} |->
          IF k = "license" THEN << Lit(BSD) >> ELSE << Lit(FooBar) >>] }

OrgCfgs ==
    {NoOrgRepo, NoDefaultsFile}
      \cup { [repo |-> TRUE, file |-> TRUE, defaults |-> d] : d \in UserDefaults }

(***************************************************************************)
(* The client.                                                             *)
(***************************************************************************)
Answers == {FooBar, BSD}

AnswerSets == UNION { [S -> Answers] : S \in SUBSET AllKeys }

StartSets == { a \in AnswerSets : Cardinality(DOMAIN a) <= 1 }

\* What a user can enter for a prompt: the default, a choice, or own text
AnswerChoices(value) ==
    {FooBar} \cup { value.items[i] : i \in 1..Len(value.items) }

(***************************************************************************)
(* Initial states.                                                         *)
(***************************************************************************)
InitForm ==
    /\ formResp = "none"
    /\ calls = 0
    /\ okCalls = 0
    /\ fetches = 0
    /\ visited = << >>
    /\ pending = FALSE

\* No request in flight, nothing memoized yet
InitNoRequests ==
    /\ reqs = << >>
    /\ clientCache = EmptyMap
    /\ strictMerge = FALSE

\* No /validate request yet, and no organization at the remote
NotValidated == [org_name |-> None, token |-> None, org |-> << >>]

InitNoValidate ==
    /\ orgs = EmptyMap
    /\ validated = NotValidated

InitCreate ==
    /\ pc = "idle"
    /\ log = << >>
    /\ tempDir = FALSE
    /\ status = 0
    /\ raisedStatus = 0
    /\ missing = {}
    /\ creates = 0

\* A session as the frontend starts it: FormDetails with its defaults
Init ==
    /\ remoteDoc \in Docs
    /\ orgCfg \in OrgCfgs
    /\ cc_context = << >>
    /\ user_inputs \in StartSets
    /\ A0 = user_inputs
    /\ next_key = None
    /\ next_value = NoneVal
    /\ done = FALSE
    /\ repoExists = FALSE
    /\ InitForm
    /\ InitCreate
    /\ InitNoRequests
    /\ InitNoValidate

(***************************************************************************)
(* POST /form                                                              *)
(***************************************************************************)
\* The resolved key is taken out of the returned document
ContextWithoutNextKey(ctx, opt) ==
    SelectSeq(ctx, LAMBDA e : e.key # opt.key)

\* "details.cc_context = get_config(...)" at most; the document is returned
\* as fetched or as received
ReturnedContext(ctx, opt) == ctx

\* The handler stores the rendered default as the answer
InputsWithDefault(inputs, opt) ==
    IF opt.done THEN inputs ELSE Put(inputs, opt.key, opt.value.items[1])

\* form assigns nothing to details.user_inputs
ReturnedInputs(inputs, opt) == inputs

\* The response of a call that raised: no session is returned
Failed(why) ==
    [status |-> why, cc_context |-> << >>, user_inputs |-> EmptyMap,
     next_key |-> None, next_value |-> NoneVal, done |-> FALSE]

\* form(details) on the request body (cc, inputs), against the remote
\* documents doc and cfg: the response, or the reason of the failure
FormResponse(doc, cfg, cc, inputs, tmplOk, strict) ==
    LET got == IF cc = << >>
               THEN get_config(doc, cfg, tmplOk, strict)
               ELSE [raised |-> FALSE, why |-> "", context |-> cc]
        opt == get_next_option(got.context, inputs)
    IN  IF got.raised THEN Failed(got.why)
        ELSE IF opt.raised THEN Failed("render_error")
        ELSE [status |-> "ok",
              cc_context |-> ReturnedContext(got.context, opt),
              user_inputs |-> ReturnedInputs(inputs, opt),
              next_key |-> opt.key,
              next_value |-> opt.value,
              done |-> opt.done]

FormHandler ==
    /\ pc = "idle"
    /\ calls < MaxCalls
    /\ \E tmplOk \in BOOLEAN, strict \in BOOLEAN :
         LET r == FormResponse(remoteDoc, orgCfg, cc_context, user_inputs,
                               tmplOk, strict)
         IN  /\ calls' = calls + 1
             /\ fetches' = IF cc_context = << >> THEN fetches + 1 ELSE fetches
             /\ formResp' = r.status
             /\ IF r.status # "ok"
                THEN UNCHANGED << sessionVars, okCalls, visited, pending >>
                ELSE /\ cc_context' = r.cc_context
                     /\ user_inputs' = r.user_inputs
                     /\ next_key' = r.next_key
                     /\ next_value' = r.next_value
                     /\ done' = r.done
                     /\ okCalls' = okCalls + 1
                     /\ visited' = IF r.done THEN visited
                                   ELSE Append(visited, r.next_key)
                     /\ pending' = ~r.done
    /\ UNCHANGED << remoteDoc, orgCfg, A0, concVars, validateVars, createVars >>

\* The client posts its session once next_key has its answer (or at the
\* start, or again after done)
Form ==
    /\ ~pending
    /\ FormHandler

\* The client posts the session it was returned once more, as it is
FormAgain ==
    /\ pending
    /\ FormHandler

\* The frontend stores the user's answer for next_key in user_inputs
ClientAnswer ==
    /\ pending
    /\ \E v \in AnswerChoices(next_value) :
         user_inputs' = Put(user_inputs, next_key, v)
    /\ pending' = FALSE
    /\ UNCHANGED << remoteDoc, orgCfg, cc_context, next_key, next_value, done,
                    formResp, calls, okCalls, fetches, visited, A0, concVars,
                    validateVars, createVars >>

Next == Form \/ ClientAnswer

Spec == Init /\ [][Next]_vars

\* Sessions in which a returned session may be posted again unanswered
NextRecall == Form \/ FormAgain \/ ClientAnswer

\* user_inputs: Dict[str, Any] = {}
InitRecall == Init /\ user_inputs = EmptyMap

SpecRecall == InitRecall /\ [][NextRecall]_vars

(***************************************************************************)
(* The resolver alone, on arbitrary documents and answer sets.             *)
(***************************************************************************)
InitResolve ==
    /\ remoteDoc = << >>
    /\ orgCfg = NoOrgRepo
    /\ cc_context \in Docs
    /\ user_inputs \in AnswerSets
    /\ A0 = user_inputs
    /\ next_key = None
    /\ next_value = NoneVal
    /\ done = FALSE
    /\ repoExists = FALSE
    /\ InitForm
    /\ InitCreate
    /\ InitNoRequests
    /\ InitNoValidate

ResolveCall ==
    /\ formResp = "none"
    /\ LET opt == get_next_option(cc_context, user_inputs)
       IN  /\ formResp' = IF opt.raised THEN "render_error" ELSE "ok"
           /\ next_key' = opt.key
           /\ next_value' = opt.value
           /\ done' = opt.done
    /\ UNCHANGED << remoteDoc, orgCfg, cc_context, user_inputs, calls, okCalls,
                    fetches, visited, pending, A0, concVars,
                    validateVars, createVars >>

NextResolve == ResolveCall

SpecResolve == InitResolve /\ [][NextResolve]_vars

(***************************************************************************)
(* POST /create: create and validate_and_create.  Every external step of   *)
(* the pipeline is one action; its outcome is the environment's choice.    *)
(* A log entry records the step, whether its call returned (ok) or raised, *)
(* whether the target repository existed once the step was over, and the   *)
(* class of the exception raised ("" when the call returned).              *)
(***************************************************************************)
Entry(step, ok, repo) ==
    [step |-> step, ok |-> ok, repo |-> repo,
     exc |-> IF ok THEN "" ELSE "Exception"]

\* set(details.cc_context) - set(details.user_inputs)
MissingValues(ctx, inputs) == KeySet(ctx) \ DOMAIN inputs

\* The validation is skipped
ValidationNeverRaises(miss) == FALSE

\* "if missing_values: raise HTTPException(status_code=400, ...)"
ValidationRaises(miss) == miss # {}

\* create(): "except BaseException" turns every exception of
\* validate_and_create, its own HTTPException(400) included, into a 500
create_response(raised) == IF raised THEN 500 ELSE 200

\* mkdtemp() with a cleanup on the success path only
TempDirLeftOnError(raised) == raised

\* "with tempfile.TemporaryDirectory(...)": the directory is removed when
\* the block is left, by return or by exception
TempDirAfterExit(raised) == FALSE

\* No handler around create_repo: its GithubException leaves the pipeline
PropagatesGithubException == FALSE

\* "except GithubException: pass" around get_organization().create_repo()
SwallowsGithubException == TRUE

\* The shell commands of validate_and_create, in program order
ShellCommands ==
    << "git_init", "git_config_name", "git_config_email", "git_remote_add",
       "git_add", "git_commit", "git_push" >>

StepAfter(cmd) ==
    LET i == CHOOSE j \in 1..Len(ShellCommands) : ShellCommands[j] = cmd
    IN  IF i = Len(ShellCommands) THEN "return" ELSE ShellCommands[i + 1]

\* The handler returns: the with-block is left, the response is sent
Return(raised) ==
    /\ tempDir' = IF tempDir THEN TempDirAfterExit(raised) ELSE FALSE
    /\ status' = create_response(raised)
    /\ pc' = "idle"

Create ==
    /\ pc = "idle"
    /\ creates < MaxCreates
    /\ creates' = creates + 1
    /\ log' = << >>
    /\ LET miss == MissingValues(cc_context, user_inputs)
       IN  /\ missing' = miss
           /\ IF ValidationRaises(miss)
              THEN /\ raisedStatus' = 400
                   /\ Return(TRUE)
              ELSE /\ raisedStatus' = 0
                   /\ status' = 0
                   /\ pc' = "mkdtemp"
                   /\ UNCHANGED tempDir
    /\ UNCHANGED << remoteDoc, orgCfg, sessionVars, formVars, A0, concVars,
                    validateVars, repoExists >>

\* tempfile.TemporaryDirectory(prefix="cookiecutter")
MakeTempDir ==
    /\ pc = "mkdtemp"
    /\ \E ok \in BOOLEAN :
         /\ log' = Append(log, Entry("mkdtemp", ok, repoExists))
         /\ IF ok
            THEN /\ tempDir' = TRUE
                 /\ pc' = "get_git_client"
                 /\ UNCHANGED status
            ELSE Return(TRUE)
    /\ UNCHANGED << remoteDoc, orgCfg, sessionVars, formVars, A0, concVars,
                    validateVars, repoExists,
                    raisedStatus, missing, creates >>

\* get_git_client(details.token); client.get_user()
GetGitClient ==
    /\ pc = "get_git_client"
    /\ \E ok \in BOOLEAN :
         /\ log' = Append(log, Entry("get_git_client", ok, repoExists))
         /\ IF ok
            THEN /\ pc' = "create_repo"
                 /\ UNCHANGED << tempDir, status >>
            ELSE Return(TRUE)
    /\ UNCHANGED << remoteDoc, orgCfg, sessionVars, formVars, A0, concVars,
                    validateVars, repoExists,
                    raisedStatus, missing, creates >>

\* client.get_organization(details.org).create_repo(details.repo)
\*   created:      the repository did not exist and exists now
\*   github_error: GithubException (the repository exists already, or the
\*                 organization is unknown, or creation is not permitted)
\*   other_error:  any other exception (connection failure)
CreateRepo ==
    /\ pc = "create_repo"
    /\ \E outcome \in {"created", "github_error", "other_error"} :
         /\ outcome = "created" => ~repoExists
         /\ repoExists' = (repoExists \/ outcome = "created")
         /\ log' = Append(log,
                [Entry("create_repo", outcome = "created", repoExists')
                    EXCEPT !.exc = IF outcome = "github_error"
                                   THEN "GithubException" ELSE @])
         /\ IF \/ outcome = "created"
               \/ outcome = "github_error" /\ SwallowsGithubException
            THEN /\ pc' = "cookiecutter"
                 /\ UNCHANGED << tempDir, status >>
            ELSE Return(TRUE)
    /\ UNCHANGED << remoteDoc, orgCfg, sessionVars, formVars, A0, concVars,
                    validateVars,
                    raisedStatus, missing, creates >>

\* cookiecutter(..., no_input=True, extra_context=details.user_inputs, ...)
Cookiecutter ==
    /\ pc = "cookiecutter"
    /\ \E ok \in BOOLEAN :
         /\ log' = Append(log, Entry("cookiecutter", ok, repoExists))
         /\ IF ok
            THEN /\ pc' = ShellCommands[1]
                 /\ UNCHANGED << tempDir, status >>
            ELSE Return(TRUE)
    /\ UNCHANGED << remoteDoc, orgCfg, sessionVars, formVars, A0, concVars,
                    validateVars, repoExists,
                    raisedStatus, missing, creates >>

\* shell_command(...): subprocess.run(..., check=True) raises when the
\* command fails; a push to a repository that does not exist fails
ShellCommand ==
    /\ \E i \in 1..Len(ShellCommands) : pc = ShellCommands[i]
    /\ \E ok \in BOOLEAN :
         /\ (pc = "git_push" /\ ~repoExists) => ~ok
         /\ log' = Append(log, Entry(pc, ok, repoExists))
         /\ IF ok /\ StepAfter(pc) # "return"
            THEN /\ pc' = StepAfter(pc)
                 /\ UNCHANGED << tempDir, status >>
            ELSE Return(~ok)
    /\ UNCHANGED << remoteDoc, orgCfg, sessionVars, formVars, A0, concVars,
                    validateVars, repoExists,
                    raisedStatus, missing, creates >>

\* Any FormDetails body can be posted to /create
InitAnySession ==
    /\ remoteDoc = << >>
    /\ orgCfg = NoOrgRepo
    /\ cc_context \in Docs
    /\ user_inputs \in AnswerSets
    /\ A0 = user_inputs
    /\ next_key = None
    /\ next_value = NoneVal
    /\ done \in BOOLEAN
    /\ repoExists \in BOOLEAN
    /\ InitForm
    /\ InitCreate
    /\ InitNoRequests
    /\ InitNoValidate

NextCreate ==
    \/ Create
    \/ MakeTempDir
    \/ GetGitClient
    \/ CreateRepo
    \/ Cookiecutter
    \/ ShellCommand

SpecCreate == InitAnySession /\ [][NextCreate]_vars

(***************************************************************************)
(* Requests of different sessions served side by side.  The endpoints are  *)
(* plain functions, which the framework runs on worker threads: a request  *)
(* owns its FormDetails, and meets the other requests only in the          *)
(* memoized get_git_client and at the remote.  A request is a record: its  *)
(* body (kind, token, cc_context, user_inputs), its position (phase), the  *)
(* client it obtained and its response.                                    *)
(***************************************************************************)
Tokens == {"t1", "t2"}

\* The tokens whose account may read the template repository
Readers == {"t1"}

\* Github(base_url=host_name, login_or_token=decrypt_token(token))
NewClient(tok) == [login |-> tok]

NoClient == [login |-> None]

\* A cache that ignores its key: any memoized client is handed out
get_git_client_any_key(cache, tok) ==
    IF DOMAIN cache # {}
    THEN cache[CHOOSE t \in DOMAIN cache : TRUE]
    ELSE NewClient(tok)

\* @lru_cache() def get_git_client(token): the memoized client of this
\* token, or a new client logged in with it
get_git_client(cache, tok) ==
    IF tok \in DOMAIN cache THEN cache[tok] ELSE NewClient(tok)

ConcDocs ==
    { ExampleDoc,
      << [key |-> "license", val |-> List(<< << Lit(MIT) >>, << Lit(BSD) >> >>)] >> }

ConcCfgs ==
    { NoOrgRepo,
      [repo |-> TRUE, file |-> TRUE,
       defaults |-> [k \in {"license"} |-> << Lit(FooBar) >>]],
      [repo |-> TRUE, file |-> TRUE,
       defaults |-> [k \in {"project_name"} |-> << Lit(FooBar) >>]] }

\* (cc_context, user_inputs) of the posted bodies
ConcSessions ==
    { << << >>, EmptyMap >>,
      << << >>, [k \in {"project_name"} |-> FooBar] >>,
      << ExampleDoc, EmptyMap >>,
      << ExampleDoc, [k \in {"project_name", "project_slug"} |-> FooBar] >> }

Requests ==
    { [kind |-> kd, token |-> tok, cc_context |-> ss[1], user_inputs |-> ss[2],
       phase |-> "new", client |-> NoClient, resp |-> Failed("none"),
       code |-> 0] :
        kd \in {"form", "create"}, tok \in Tokens, ss \in ConcSessions }

InitConc ==
    /\ remoteDoc \in ConcDocs
    /\ orgCfg \in ConcCfgs
    /\ strictMerge \in BOOLEAN
    /\ reqs \in [1..NReqs -> Requests]
    /\ clientCache = EmptyMap
    /\ cc_context = << >>
    /\ user_inputs = EmptyMap
    /\ A0 = EmptyMap
    /\ next_key = None
    /\ next_value = NoneVal
    /\ done = FALSE
    /\ repoExists = FALSE
    /\ InitForm
    /\ InitCreate
    /\ InitNoValidate

\* The response of the request when it is the only one the server ever got
FormAlone(r) ==
    FormResponse(remoteDoc, orgCfg, r.cc_context, r.user_inputs,
                 r.token \in Readers, strictMerge)

ConcFrame ==
    UNCHANGED << remoteDoc, orgCfg, sessionVars, formVars, A0, strictMerge,
                 validateVars,
                 pc, log, tempDir, status, raisedStatus, missing, creates >>

\* form -> get_config: "client = get_git_client(token)"
ConcFormClient(i) ==
    /\ reqs[i].kind = "form"
    /\ reqs[i].phase = "new"
    /\ reqs[i].cc_context = << >>
    /\ LET c == get_git_client(clientCache, reqs[i].token)
       IN  /\ clientCache' = Put(clientCache, reqs[i].token, c)
           /\ reqs' = [reqs EXCEPT ![i].phase = "client", ![i].client = c]
    /\ UNCHANGED repoExists
    /\ ConcFrame

\* form: the rest of get_config, read with the client obtained, then
\* get_next_option and the return
ConcFormRespond(i) ==
    /\ reqs[i].kind = "form"
    /\ \/ reqs[i].phase = "client"
       \/ reqs[i].phase = "new" /\ reqs[i].cc_context # << >>
    /\ reqs' = [reqs EXCEPT
                  ![i].phase = "done",
                  ![i].resp = FormResponse(remoteDoc, orgCfg,
                                           reqs[i].cc_context,
                                           reqs[i].user_inputs,
                                           reqs[i].client.login \in Readers,
                                           strictMerge)]
    /\ UNCHANGED << clientCache, repoExists >>
    /\ ConcFrame

\* create -> validate_and_create: missing_values, then get_git_client
ConcCreateClient(i) ==
    /\ reqs[i].kind = "create"
    /\ reqs[i].phase = "new"
    /\ IF ValidationRaises(MissingValues(reqs[i].cc_context,
                                         reqs[i].user_inputs))
       THEN /\ reqs' = [reqs EXCEPT ![i].phase = "done",
                                    ![i].code = create_response(TRUE)]
            /\ UNCHANGED clientCache
       ELSE LET c == get_git_client(clientCache, reqs[i].token)
            IN  /\ clientCache' = Put(clientCache, reqs[i].token, c)
                /\ reqs' = [reqs EXCEPT ![i].phase = "client",
                                        ![i].client = c]
    /\ UNCHANGED repoExists
    /\ ConcFrame

\* create: create_repo, cookiecutter and the shell commands, to the return
ConcCreatePublish(i) ==
    /\ reqs[i].kind = "create"
    /\ reqs[i].phase = "client"
    /\ \E created \in BOOLEAN, raised \in BOOLEAN :
         /\ created => ~repoExists
         /\ repoExists' = (repoExists \/ created)
         /\ reqs' = [reqs EXCEPT ![i].phase = "done",
                                 ![i].code = create_response(raised)]
    /\ UNCHANGED clientCache
    /\ ConcFrame

NextConc ==
    \E i \in 1..NReqs :
        \/ ConcFormClient(i)
        \/ ConcFormRespond(i)
        \/ ConcCreateClient(i)
        \/ ConcCreatePublish(i)

SpecConc == InitConc /\ [][NextConc]_vars

(***************************************************************************)
(* GET /validate/{org_name}/{repo_name}: validate and validate_org.  The   *)
(* remote holds, for every organization name, whether the organization     *)
(* exists, the logins of its members and its members_can_create_           *)
(* repositories setting.  A message is the sequence of its parts; the      *)
(* empty string is the empty sequence.                                     *)
(***************************************************************************)
OrgNames == {"acme", "solo"}

\* get_current_user(token).login
UserOf(tok) == IF tok = "t1" THEN "alice" ELSE "bob"

Users == { UserOf(t) : t \in Tokens }

AbsentOrg == [exists |-> FALSE, members |-> {}, canCreate |-> FALSE]

OrgStates ==
    {AbsentOrg}
      \cup { [exists |-> TRUE, members |-> m, canCreate |-> c] :
               m \in SUBSET Users, c \in BOOLEAN }

InvalidOrg == << "Please enter a valid organization" >>

NotMember(login, org_name) ==
    << login, " is not a member of the '", org_name, "' organization.",
       " Please invite ", login, " to this organization to continue." >>

NoCreate ==
    << "This organization does not allow members to create repositories." >>

Valid == << >>

\* The permission is looked at before the membership
validate_org_permission_first(remote, org_name, tok) ==
    IF ~remote[org_name].exists THEN InvalidOrg
    ELSE IF ~remote[org_name].canCreate THEN NoCreate
    ELSE IF UserOf(tok) \notin remote[org_name].members
    THEN NotMember(UserOf(tok), org_name)
    ELSE Valid

validate_org(remote, org_name, tok) ==
    IF ~remote[org_name].exists THEN InvalidOrg
    ELSE IF UserOf(tok) \notin remote[org_name].members
    THEN NotMember(UserOf(tok), org_name)
    ELSE IF ~remote[org_name].canCreate THEN NoCreate
    ELSE Valid

InitValidate ==
    /\ orgs \in [OrgNames -> OrgStates]
    /\ validated = NotValidated
    /\ remoteDoc = << >>
    /\ orgCfg = NoOrgRepo
    /\ cc_context = << >>
    /\ user_inputs = EmptyMap
    /\ A0 = EmptyMap
    /\ next_key = None
    /\ next_value = NoneVal
    /\ done = FALSE
    /\ repoExists = FALSE
    /\ InitForm
    /\ InitCreate
    /\ InitNoRequests

\* validate(org_name, repo_name, token): {"org": validate_org(org_name, token)}
Validate ==
    /\ \E org_name \in OrgNames, tok \in Tokens :
         validated' = [org_name |-> org_name, token |-> tok,
                       org |-> validate_org(orgs, org_name, tok)]
    /\ UNCHANGED << remoteDoc, orgCfg, sessionVars, formVars, A0, concVars,
                    createVars, orgs >>

NextValidate == Validate

SpecValidate == InitValidate /\ [][NextValidate]_vars

(***************************************************************************)
(* Properties.                                                             *)
(***************************************************************************)
AllAnswered(ctx, inputs) == KeySet(ctx) \subseteq DOMAIN inputs

FirstMissingIndex(ctx, inputs) ==
    CHOOSE i \in 1..Len(ctx) :
        /\ ctx[i].key \notin DOMAIN inputs
        /\ \A j \in 1..(i - 1) : ctx[j].key \in DOMAIN inputs

NotInA0(k) == k \notin DOMAIN A0

\* C1 (as stated): once done=true is returned in a session that started from
\* an answer set A0 with keys(A0) a subset of keys(D), the keys returned as
\* next_key are all the keys of D, each once, in D's order, and the answer
\* set has exactly the keys of D.
C1_VisitsEveryKeyOfD ==
    (done /\ DOMAIN A0 \subseteq KeySet(cc_context))
        => /\ visited = Keys(cc_context)
           /\ DOMAIN user_inputs = KeySet(cc_context)

\* C1 (amended): once done=true is returned in such a session, the keys
\* returned as next_key are the keys of D that were not in A0, each once, in
\* D's order, and the answer set has exactly the keys of D.
C1_VisitsEveryUnansweredKey ==
    (done /\ DOMAIN A0 \subseteq KeySet(cc_context))
        => /\ visited = SelectSeq(Keys(cc_context), NotInA0)
           /\ DOMAIN user_inputs = KeySet(cc_context)

C1_Witness ==
    /\ done
    /\ A0 # EmptyMap
    /\ DOMAIN A0 \subseteq KeySet(cc_context)
    /\ Len(visited) >= 1
    /\ Len(cc_context) >= 2

\* C2 (as stated): a call of get_next_option returns (None, None, True) iff
\* every key of D is in A, and otherwise returns done=false with next_key the
\* first key of D that is not in A.
C2_EveryCallReturns ==
    formResp # "none"
        => IF AllAnswered(cc_context, user_inputs)
           THEN /\ formResp = "ok"
                /\ done /\ next_key = None /\ next_value = NoneVal
           ELSE /\ formResp = "ok"
                /\ ~done
                /\ next_key =
                     cc_context[FirstMissingIndex(cc_context, user_inputs)].key

\* C2 (amended): a call of get_next_option returns (None, None, True) iff
\* every key of D is in A; otherwise it either raises while rendering the
\* default of the first key of D that is not in A, or returns done=false
\* with that key as next_key and a value of the kind of that key's default.
C2_ReturnsFirstMissingOrRaises ==
    formResp # "none"
        => IF AllAnswered(cc_context, user_inputs)
           THEN /\ formResp = "ok"
                /\ done /\ next_key = None /\ next_value = NoneVal
           ELSE LET e == cc_context[FirstMissingIndex(cc_context, user_inputs)]
                IN  \/ /\ formResp = "render_error"
                       /\ \E i \in 1..Len(e.val.items) :
                            \E t \in 1..Len(e.val.items[i]) :
                               /\ e.val.items[i][t].k # ""
                               /\ e.val.items[i][t].k \notin DOMAIN user_inputs
                    \/ /\ formResp = "ok"
                       /\ ~done
                       /\ next_key = e.key
                       /\ next_value.kind = e.val.kind
                       /\ Len(next_value.items) = Len(e.val.items)

C2_Witness ==
    /\ formResp = "ok"
    /\ ~done
    /\ Len(cc_context) >= 2
    /\ cc_context[1].key \in DOMAIN user_inputs
    /\ next_key = cc_context[2].key

\* C3 (as stated): a /create whose user_inputs lacks a key of cc_context is
\* answered with status 400 and the missing keys, and a 500 is answered only
\* when a step of publish failed.
C3_IncompleteInputsGet400 ==
    (pc = "idle" /\ creates >= 1)
        => /\ missing # {} => status = 400
           /\ status = 500 => (missing = {} /\ log # << >>)

\* C4: a /create whose user_inputs lacks a key of cc_context executes no
\* step of the pipeline: no temporary directory, no GitHub call, no
\* generation, no git command; it has returned with an error.
C4_NoSideEffectWhenIncomplete ==
    (creates >= 1 /\ ~AllAnswered(cc_context, user_inputs))
        => /\ log = << >>
           /\ ~tempDir
           /\ pc = "idle"
           /\ status >= 400

C4_Witness ==
    /\ creates >= 1
    /\ pc = "idle"
    /\ Cardinality(missing) >= 2
    /\ status >= 400

\* C5 (as stated): once a /form call of the session has returned, no later
\* /form call of the session fetches from the remote.
C5_FetchedOnFirstCallOnly ==
    [][okCalls >= 1 => fetches' = fetches]_vars

\* C6 (as stated): a step of publish that fails is the last step executed,
\* the response is a 500, and no step is executed twice.  (A create_repo
\* that raises because the repository exists has not failed to ensure it.)
C6_FailureAborts ==
    /\ \A i \in 1..Len(log) :
         (~log[i].ok /\ ~(log[i].step = "create_repo" /\ log[i].repo))
             => (i = Len(log) /\ pc = "idle" /\ status = 500)
    /\ \A i, j \in 1..Len(log) : log[i].step = log[j].step => i = j

\* C7 (as stated): git push is executed only when the target repository
\* exists, and git commit only after cookiecutter() has completed.
C7_StepsRespectDependencies ==
    \A i \in 1..Len(log) :
        /\ log[i].step = "git_push" => log[i].repo
        /\ log[i].step = "git_commit"
              => \E j \in 1..(i - 1) : log[j].step = "cookiecutter" /\ log[j].ok

\* C8: whenever no /create is running, i.e. after every /create has
\* returned, with a success or with an error, its temporary directory is gone.
C8_TempDirRemoved ==
    pc = "idle" => ~tempDir

C8_Witness ==
    /\ pc = "idle"
    /\ status = 500
    /\ Len(log) >= 4
    /\ log[1] = Entry("mkdtemp", TRUE, log[1].repo)
    /\ ~log[Len(log)].ok

\* The text a template stands for, by substitution of the answers
Piece(tok) ==
    IF tok.k = "" THEN tok.s
    ELSE IF ~tok.slug THEN user_inputs[tok.k]
    ELSE [i \in 1..Len(user_inputs[tok.k]) |->
             LET c == user_inputs[tok.k][i]
             IN  IF c = " " THEN "-" ELSE Lower(c)]

Substituted(tmpl) ==
    IF Len(tmpl) = 1 THEN Piece(tmpl[1]) ELSE Piece(tmpl[1]) \o Piece(tmpl[2])

\* C9: the value returned with next_key is that key's default with every
\* reference to an answered key replaced by the answer (lower-cased and
\* dash-joined where the default says so: 'Foo Bar' gives 'foo-bar'), and
\* the call raises iff the default refers to a key that has no answer.
C9_RenderedDefault ==
    (formResp # "none" /\ ~AllAnswered(cc_context, user_inputs))
        => LET e == cc_context[FirstMissingIndex(cc_context, user_inputs)]
               safe(it) == [t \in 1..2 |-> IF t <= Len(it) THEN it[t].k ELSE ""]
               refsOf == UNION { { safe(e.val.items[i])[t] : t \in 1..2 } :
                                   i \in 1..Len(e.val.items) } \ {""}
           IN  /\ formResp = "render_error" <=> ~(refsOf \subseteq DOMAIN user_inputs)
               /\ formResp = "ok" =>
                    /\ next_value.kind = e.val.kind
                    /\ \A i \in 1..Len(e.val.items) :
                         next_value.items[i] = Substituted(e.val.items[i])
               /\ ( /\ formResp = "ok"
                    /\ cc_context = ExampleDoc
                    /\ "project_name" \in DOMAIN user_inputs
                    /\ user_inputs["project_name"] = FooBar )
                     => /\ next_key = "project_slug"
                        /\ next_value.items
                             = << << "f", "o", "o", "-", "b", "a", "r" >> >>

C9_Witness ==
    /\ formResp = "ok"
    /\ cc_context = ExampleDoc
    /\ DOMAIN user_inputs = {"project_name"}
    /\ user_inputs["project_name"] = FooBar
    /\ next_value = [kind |-> "str",
                     items |-> << << "f", "o", "o", "-", "b", "a", "r" >> >>]

Overridden(i) ==
    /\ orgCfg.file
    /\ remoteDoc[i].key \in DOMAIN orgCfg.defaults

\* C10 (as stated): the fetched document has the keys of the template's
\* document in the same order; every key that has an override has the
\* override as its default, whatever the kind of its default; every other
\* key keeps its default.
C10_OverrideReplacesEveryDefault ==
    (okCalls >= 1 /\ cc_context # << >>)
        => /\ Keys(cc_context) = Keys(remoteDoc)
           /\ \A i \in 1..Len(remoteDoc) :
                cc_context[i].val =
                    IF Overridden(i) THEN Str(orgCfg.defaults[remoteDoc[i].key])
                    ELSE remoteDoc[i].val

\* C10 (amended): the fetched document has the keys of the template's
\* document in the same order; a key with a string default that has an
\* override has the override as its default; a key with a list of choices
\* keeps its choices, and an override that is one of them becomes the first
\* choice, the others keeping their order; every other key keeps its default.
C10_OverrideReplacesStringDefaults ==
    (okCalls >= 1 /\ cc_context # << >>)
        => /\ Keys(cc_context) = Keys(remoteDoc)
           /\ \A i \in 1..Len(remoteDoc) :
                LET old == remoteDoc[i].val
                    new == cc_context[i].val
                IN  IF ~Overridden(i) THEN new = old
                    ELSE LET ov == orgCfg.defaults[remoteDoc[i].key]
                         IN  IF old.kind = "str" THEN new = Str(ov)
                             ELSE /\ new.kind = "list"
                                  /\ Len(new.items) = Len(old.items)
                                  /\ IF \E j \in 1..Len(old.items) : old.items[j] = ov
                                     THEN /\ new.items[1] = ov
                                          /\ SelectSeq(new.items, LAMBDA x : x # ov)
                                               = SelectSeq(old.items, LAMBDA x : x # ov)
                                     ELSE new = old

C10_Witness ==
    /\ okCalls >= 1
    /\ Len(cc_context) >= 2
    /\ \E i \in 1..Len(cc_context) :
         /\ Overridden(i)
         /\ remoteDoc[i].val.kind = "list"
         /\ cc_context[i].val # remoteDoc[i].val
         /\ cc_context[i].val.items[1] = orgCfg.defaults[remoteDoc[i].key]
    /\ \E i \in 1..Len(cc_context) :
         /\ Overridden(i)
         /\ remoteDoc[i].val.kind = "str"

\* C11: when the organization has no .github repository, or that repository
\* has no defaults file for the template, the lookup raises nothing: /form
\* fails only if the template itself cannot be read or a default does not
\* render, and the document it returns is the template's document, unmodified.
C11_LookupFailureIsNoOverrides ==
    ~orgCfg.file
        => /\ formResp \in {"none", "ok", "render_error", "fetch_error"}
           /\ (okCalls >= 1 /\ cc_context # << >>) => cc_context = remoteDoc
           /\ pending
                 => next_key = remoteDoc[FirstMissingIndex(remoteDoc, user_inputs)].key

C11_Witness ==
    /\ orgCfg = NoDefaultsFile
    /\ okCalls >= 1
    /\ Len(remoteDoc) >= 2
    /\ cc_context = remoteDoc
    /\ next_key = remoteDoc[1].key

C13_NoForeignKeyAtCompletion ==
    (okCalls >= 1
       /\ (done \/ ~ValidationRaises(MissingValues(cc_context, user_inputs))))
        => DOMAIN user_inputs \subseteq KeySet(cc_context)

\* C13 (amended): in a session that started from an answer set whose keys
\* are keys of the document, the answer set only grows and at every moment,
\* so also at done=true and when /create validates it, every key of
\* user_inputs is a key of cc_context.
C13_NoForeignKeyInProtocolSession ==
    (okCalls >= 1 /\ DOMAIN A0 \subseteq KeySet(cc_context))
        => /\ DOMAIN user_inputs \subseteq KeySet(cc_context)
           /\ DOMAIN A0 \subseteq DOMAIN user_inputs
           /\ \A k \in DOMAIN A0 : user_inputs[k] = A0[k]

C13_Witness ==
    /\ done
    /\ okCalls >= 2
    /\ ~ValidationRaises(MissingValues(cc_context, user_inputs))
    /\ A0 # EmptyMap
    /\ DOMAIN A0 \subseteq KeySet(cc_context)
    /\ DOMAIN user_inputs # DOMAIN A0

C15_FormResponseAsAlone ==
    /\ \A i \in DOMAIN reqs :
         (reqs[i].kind = "form" /\ reqs[i].phase = "done")
             => reqs[i].resp = FormAlone(reqs[i])
    /\ \A t \in DOMAIN clientCache : clientCache[t] = NewClient(t)

C15_Witness ==
    /\ reqs # << >>
    /\ \E i \in DOMAIN reqs, j \in DOMAIN reqs :
         /\ reqs[i].kind = "create" /\ reqs[i].phase = "client"
         /\ reqs[i].token = "t1"
         /\ reqs[j].kind = "form" /\ reqs[j].phase = "done"
         /\ reqs[j].token = "t2"
         /\ reqs[j].cc_context = << >>
         /\ reqs[j].resp.status = "fetch_error"
    /\ DOMAIN clientCache = Tokens

\* C16: the org message of /validate is the empty string exactly when the
\* organization exists, the user of the token is one of its members and it
\* lets members create repositories; otherwise it is the non-empty message
\* of the first check that fails, in the order existence, membership,
\* permission.
C16_ValidateOrgMessage ==
    validated.org_name # None
        => LET o == orgs[validated.org_name]
               u == UserOf(validated.token)
           IN  /\ validated.org = Valid
                    <=> (o.exists /\ u \in o.members /\ o.canCreate)
               /\ ~o.exists => validated.org = InvalidOrg
               /\ (o.exists /\ u \notin o.members)
                    => validated.org = NotMember(u, validated.org_name)
               /\ (o.exists /\ u \in o.members /\ ~o.canCreate)
                    => validated.org = NoCreate
               /\ Valid \notin {InvalidOrg, NoCreate,
                                NotMember(u, validated.org_name)}

C16_Witness ==
    /\ validated.org_name # None
    /\ orgs[validated.org_name].exists
    /\ UserOf(validated.token) \notin orgs[validated.org_name].members
    /\ ~orgs[validated.org_name].canCreate
    /\ validated.org = NotMember(UserOf(validated.token), validated.org_name)

\* C17: a create_repo that raises GithubException because the target
\* repository exists already does not end the pipeline: the next step is
\* the generation, as after a fresh creation, and /create answers 500 only
\* if a later step raised, 200 once the push has returned.
C17_ExistingRepoIsSwallowed ==
    \A i \in 1..Len(log) :
        (/\ log[i].step = "create_repo"
         /\ log[i].exc = "GithubException"
         /\ log[i].repo)
            => /\ i = Len(log) => (pc = "cookiecutter" /\ status = 0)
               /\ i < Len(log) => log[i + 1].step = "cookiecutter"
               /\ (pc = "idle" /\ status = 500)
                    => \E j \in (i + 1)..Len(log) : ~log[j].ok
               /\ (pc = "idle" /\ \A j \in (i + 1)..Len(log) : log[j].ok)
                    => (status = 200 /\ log[Len(log)].step = "git_push")

C17_Witness ==
    /\ pc = "idle"
    /\ status = 200
    /\ \E i \in 1..Len(log) :
         /\ log[i].step = "create_repo"
         /\ log[i].exc = "GithubException"
         /\ log[i].repo
    /\ log[Len(log)].step = "git_push"
    /\ log[Len(log)].ok

\* C18: a /form call leaves user_inputs as posted and a non-empty
\* cc_context as posted; only an empty cc_context, next_key, next_value and
\* done are assigned, and a returned next_key has no answer yet: the server
\* adds no answer of its own.
C18_FormFrame ==
    [][calls' = calls + 1
          => /\ user_inputs' = user_inputs
             /\ cc_context # << >> => cc_context' = cc_context
             /\ (formResp' = "ok" /\ ~done')
                  => next_key' \notin DOMAIN user_inputs']_vars

C18_Witness ==
    /\ pending
    /\ okCalls >= 2
    /\ fetches = 1
    /\ user_inputs # EmptyMap
    /\ DOMAIN user_inputs # DOMAIN A0
    /\ next_key \notin DOMAIN user_inputs

\* C19: in a session started from empty user_inputs whose client answers
\* the returned next_key after every call, the k-th call that returns asks
\* for the k-th key of the document (done=false) for k = 1..n, and every
\* returning call after the n-th returns done=true.
C19_DoneAfterNAnswers ==
    (A0 = EmptyMap /\ okCalls >= 1)
        => LET n == Len(cc_context)
           IN  /\ okCalls <= n
                    => /\ ~done
                       /\ next_key = cc_context[okCalls].key
                       /\ Len(visited) = okCalls
               /\ okCalls > n
                    => /\ done
                       /\ next_key = None
                       /\ Len(visited) = n
                       /\ DOMAIN user_inputs = KeySet(cc_context)

C19_Witness ==
    /\ A0 = EmptyMap
    /\ done
    /\ Len(cc_context) = 2
    /\ okCalls = Len(cc_context) + 2
    /\ calls = okCalls

====
